---- MODULE Spec2Model ----
(***************************************************************************)
(* "rush generate": GenerateAction.onExecute and its static helpers        *)
(* (rush/rush/src/actions/GenerateAction.ts).                              *)
(*                                                                         *)
(* The state is the rush configuration (pinned versions, projects, package *)
(* review), the files of the common folder (node_modules, temp_modules,    *)
(* package.json, npm-shrinkwrap.json) and, for each invocation slot, the   *)
(* position of onExecute and its local variables.  File and package names  *)
(* are sequences of characters, so that the glob 'rush-*', localeCompare   *)
(* and string concatenation are computed and not assumed.                  *)
(***************************************************************************)
EXTENDS Integers, Sequences, FiniteSets, TLC

(* ------------------------------ bounds --------------------------------- *)
MaxProjects == 2     \* longest rushConfiguration.projects list
MaxPinned == 2       \* most entries of rushConfiguration.pinnedVersions
MaxRuns == 2         \* invocations of "rush generate" in one behaviour
MaxAttempts == 2     \* attempts of createFolderWithRetry before it throws

Runs == {1, 2}       \* invocation slots (processes); slot 2 is for overlap

(* ------------------------------ strings -------------------------------- *)
\* Characters in localeCompare (collation) order: punctuation, digits, letters.
Alphabet == <<"-", "a", "b", "c", "d", "h", "l", "o", "r", "s", "u">>

Rank(c) == CHOOSE i \in 1..Len(Alphabet) : Alphabet[i] = c

\* String.prototype.localeCompare: negative, zero or positive.
RECURSIVE localeCompare(_, _)
localeCompare(a, b) ==
  IF a = <<>> /\ b = <<>> THEN 0
  ELSE IF a = <<>> THEN -1
  ELSE IF b = <<>> THEN 1
  ELSE IF Rank(Head(a)) < Rank(Head(b)) THEN -1
  ELSE IF Rank(Head(a)) > Rank(Head(b)) THEN 1
  ELSE localeCompare(Tail(a), Tail(b))

StartsWith(s, p) == Len(s) >= Len(p) /\ SubSeq(s, 1, Len(p)) = p

\* The names start with "rush-" (line 38); the glob of line 41 is '/rush-*'.
TempPrefix == <<"r", "u", "s", "h", "-">>

\* glob.sync(... + '/rush-*'): the entries whose name is "rush-" followed by
\* any characters (none included).
GlobRushStarBroad(name) == StartsWith(name, <<"r", "u", "s", "h">>)
GlobRushStar(name) == StartsWith(name, TempPrefix)

RushA == TempPrefix \o <<"a">>
RushB == TempPrefix \o <<"b">>
RushC == TempPrefix \o <<"c">>
Rush == <<"r", "u", "s", "h">>
Lodash == <<"l", "o", "d", "a", "s", "h">>

\* 'file:./temp_modules/' + tempProjectName (line 104)
FileRefNoDir(tempProjectName) == <<"file:./">> \o tempProjectName
FileRef(tempProjectName) == <<"file:./temp_modules/">> \o tempProjectName

(* --------------------------- JavaScript values -------------------------- *)
\* An object with string keys is the sequence of its <<key, value>> pairs in
\* insertion order; obj[k] = v keeps the place of a key that is present.
Keys(obj) == [i \in 1..Len(obj) |-> obj[i][1]]
KeySet(obj) == {obj[i][1] : i \in 1..Len(obj)}
HasKey(obj, k) == k \in KeySet(obj)
Get(obj, k) == obj[CHOOSE i \in 1..Len(obj) : obj[i][1] = k][2]

ObjSet(obj, k, v) ==
  IF HasKey(obj, k)
  THEN [i \in 1..Len(obj) |-> IF obj[i][1] = k THEN <<k, v>> ELSE obj[i]]
  ELSE Append(obj, <<k, v>>)

\* Array.prototype.sort with the comparator of line 91 (a stable insertion
\* sort: equal names keep their order).
RECURSIVE InsertSorted(_, _)
InsertSorted(sorted, p) ==
  IF sorted = <<>> THEN <<p>>
  ELSE IF localeCompare(p.tempProjectName, Head(sorted).tempProjectName) < 0
       THEN <<p>> \o sorted
       ELSE <<Head(sorted)>> \o InsertSorted(Tail(sorted), p)

RECURSIVE SortFrom(_, _)
SortFrom(list, acc) ==
  IF list = <<>> THEN acc ELSE SortFrom(Tail(list), InsertSorted(acc, Head(list)))

\* lines 89-92: a sorted copy of rushConfiguration.projects
SortedRushProjects(projectList) == SortFrom(projectList, <<>>)

(* ---------------------------- configuration ---------------------------- *)
Dep(name, range) == <<name, range>>

\* RushConfigurationProject: packageName, tempProjectName, packageJson
ProjectUniverse ==
  { [packageName |-> <<"a">>, tempProjectName |-> RushA,
     packageJson |-> [name |-> <<"a">>, dependencies |-> <<Dep(Lodash, <<"^1.0.0">>)>>]],
    [packageName |-> <<"b">>, tempProjectName |-> RushB,
     packageJson |-> [name |-> <<"b">>, dependencies |-> <<>>]],
    [packageName |-> <<"c">>, tempProjectName |-> RushA,
     packageJson |-> [name |-> <<"c">>, dependencies |-> <<>>]] }

\* rushConfiguration.pinnedVersions: Map<dependency, version>
PinnedUniverse == { Dep(Lodash, <<"1.0.0">>), Dep(RushA, <<"2.0.0">>) }

Distinct(seq) == \A i, j \in 1..Len(seq) : i # j => seq[i] # seq[j]

SeqsUpTo(S, n) == UNION { [1..k -> S] : k \in 0..n }

ProjectLists == { l \in SeqsUpTo(ProjectUniverse, MaxProjects) : Distinct(l) }
PinnedMaps == { m \in SeqsUpTo(PinnedUniverse, MaxPinned) : Distinct(Keys(m)) }

(* ------------------------------ the files ------------------------------ *)
NoDir == [exists |-> FALSE, entries |-> {}]
Dir(names) == [exists |-> TRUE, entries |-> names]

NoFile == [exists |-> FALSE, dependencies |-> <<>>]
PackageJsonFile(deps) == [exists |-> TRUE, dependencies |-> deps]

EmptyFn == [x \in {} |-> {}]
NoTempModules == [exists |-> FALSE, dirs |-> EmptyFn]

\* A temp project folder holds no package.json ({}) or one ({manifest}).
StaleManifest == [name |-> RushC, dependencies |-> <<>>]
StaleTempModules ==
  [exists |-> TRUE,
   dirs |-> [n \in {RushA, RushC} |-> {StaleManifest}]]

StalePackageJson == PackageJsonFile(<<Dep(RushC, FileRef(RushC))>>)

VARIABLES
  pinnedVersions,        \* rushConfiguration.pinnedVersions, in Map order
  projects,              \* rushConfiguration.projects
  packageReviewFile,     \* whether rushConfiguration.packageReviewFile is set
  nodeModules,           \* common/node_modules
  shrinkwrapFile,        \* whether common/npm-shrinkwrap.json exists
  tempModulesFolder,     \* common/temp_modules and its project folders
  commonPackageJsonFile, \* common/package.json on disk
  pc,                    \* per slot: the position of onExecute
  isLazy,                \* per slot: this._lazyParameter.value
  commonPackageJson,     \* per slot: commonPackageJson.dependencies (line 72)
  sortedRushProjects,    \* per slot: the local of line 89
  idx,                   \* per slot: position of the loop of line 96
  attempts,              \* per slot: failed attempts of createFolderWithRetry
  log,                   \* per slot: the stages called in this run, with outcome
  pre,                   \* per slot: the files as the run found them
  prev,                  \* per slot: how the slot's previous run ended
  runs,                  \* invocations started so far
  overlapped             \* per slot: another invocation ran during this one

config == <<pinnedVersions, projects, packageReviewFile>>
files == <<nodeModules, shrinkwrapFile, tempModulesFolder, commonPackageJsonFile>>
locals == <<isLazy, commonPackageJson, sortedRushProjects, idx, attempts>>
history == <<pre, prev, runs, overlapped>>
vars == <<config, files, pc, locals, log, history>>

Files == [nodeModules |-> nodeModules, shrinkwrapFile |-> shrinkwrapFile,
          tempModulesFolder |-> tempModulesFolder,
          commonPackageJsonFile |-> commonPackageJsonFile]

NoPrev == [ran |-> FALSE, ok |-> FALSE, wrote |-> FALSE, killed |-> FALSE,
           commonPackageJsonFile |-> NoFile, tempModulesFolder |-> NoTempModules]

\* The common folder of a fresh clone, or one left by an earlier generate and
\* install of another configuration; the invocations make the other mixes.
InitFiles ==
  \/ /\ nodeModules = NoDir
     /\ shrinkwrapFile = FALSE
     /\ tempModulesFolder = NoTempModules
     /\ commonPackageJsonFile = NoFile
  \/ /\ nodeModules = Dir({RushA, Rush, Lodash})
     /\ shrinkwrapFile = TRUE
     /\ tempModulesFolder = StaleTempModules
     /\ commonPackageJsonFile = StalePackageJson

InitConfig ==
  /\ pinnedVersions \in PinnedMaps
  /\ projects \in ProjectLists
  /\ packageReviewFile \in BOOLEAN

InitLocals(first) ==
  /\ pc = [r \in Runs |-> IF r \in first THEN "idle" ELSE "off"]
  /\ isLazy = [r \in Runs |-> FALSE]
  /\ commonPackageJson = [r \in Runs |-> <<>>]
  /\ sortedRushProjects = [r \in Runs |-> <<>>]
  /\ idx = [r \in Runs |-> 0]
  /\ attempts = [r \in Runs |-> 0]
  /\ log = [r \in Runs |-> <<>>]
  /\ pre = [r \in Runs |-> Files]
  /\ prev = [r \in Runs |-> NoPrev]
  /\ runs = 0
  /\ overlapped = [r \in Runs |-> FALSE]

\* One invocation at a time (section 4.4 of the design: single run assumed).
Init == InitConfig /\ InitFiles /\ InitLocals({1})

(* ------------------------- collaborators' effects ----------------------- *)
\* new TempModuleGenerator(rushConfiguration).tempModules (line 94): a Map
\* from packageName to the project's manifest renamed to its temp alias.
RECURSIVE TempModulesFrom(_, _)
TempModulesFrom(projectList, map) ==
  IF projectList = <<>> THEN map
  ELSE TempModulesFrom(Tail(projectList),
         ObjSet(map, Head(projectList).packageName,
                [name |-> Head(projectList).tempProjectName,
                 dependencies |-> Head(projectList).packageJson.dependencies]))

TempModules == TempModulesFrom(projects, <<>>)

\* "npm install" in the common folder resolves every 'file:' dependency of
\* common/package.json to a folder holding a package.json.
IsFileRef(v) == Head(v) = "file:./temp_modules/"
Resolves(v) ==
  /\ tempModulesFolder.exists
  /\ Tail(v) \in DOMAIN tempModulesFolder.dirs
  /\ tempModulesFolder.dirs[Tail(v)] # {}

CanInstall ==
  /\ commonPackageJsonFile.exists
  /\ \A i \in 1..Len(commonPackageJsonFile.dependencies) :
       LET v == commonPackageJsonFile.dependencies[i][2]
       IN IsFileRef(v) => Resolves(v)

\* What "npm install" puts into common/node_modules: the dependencies of
\* common/package.json and the dependencies of the temp modules it copies.
InstalledNames ==
  KeySet(commonPackageJsonFile.dependencies) \cup
  UNION { UNION { KeySet(m.dependencies) : m \in tempModulesFolder.dirs[d] }
          : d \in DOMAIN tempModulesFolder.dirs }

(* ------------------------------ the stages ----------------------------- *)
LoadStage == "LoadConfiguration"
SnapshotStage == "Snapshot"
CleanStage == "CleanNodeModules"
DeleteLockStage == "DeleteLockArtifact"
DeleteTempStage == "DeleteTempModulesRoot"
PopulateStage == "RecreateAndPopulate"
EnsureStage == "EnsureInstaller"
InstallStage == "Install"
FreezeStage == "Freeze"
SummaryStage == "Summary"

\* lines 167-203: the calls of onExecute, in the order it makes them
\* ("mkroot" is the entry of _createCommonTempModulesAndPackageJson).
OnExecuteSnapshotLate ==
  <<"load", "clean", "snapshot", "dellock", "deltemp", "mkroot", "ensure", "install",
    "shrinkwrap", "finish", "done">>
OnExecuteDeleteTempLate ==
  <<"load", "snapshot", "clean", "dellock", "mkroot", "deltemp", "ensure", "install",
    "shrinkwrap", "finish", "done">>
OnExecuteEnsureFirst ==
  <<"load", "snapshot", "ensure", "clean", "dellock", "deltemp", "mkroot", "install",
    "shrinkwrap", "finish", "done">>
OnExecuteOrder ==
  <<"load", "snapshot", "clean", "dellock", "deltemp", "mkroot", "ensure", "install",
    "shrinkwrap", "finish", "done">>

After(p) == OnExecuteOrder[1 + CHOOSE i \in 1..Len(OnExecuteOrder) : OnExecuteOrder[i] = p]

Goto(r, p) == pc' = [pc EXCEPT ![r] = p]
Logged(r, stage, outcome) == log' = [log EXCEPT ![r] = Append(@, <<stage, outcome>>)]
\* An exception leaves onExecute: nothing of it runs any more.
ThrowSwallowed(r, stage) ==
  /\ Logged(r, stage, "threw")
  /\ Goto(r, IF pc[r] \in {"prepare", "mkdir", "save", "writecommon"}
             THEN After("mkroot") ELSE After(pc[r]))
Throw(r, stage) == Goto(r, "failed") /\ Logged(r, stage, "threw")

Called(r, stage) == \E i \in 1..Len(log[r]) : log[r][i][1] = stage
Completed(r, stage) == \E i \in 1..Len(log[r]) : log[r][i] = <<stage, "ok">>
Threw(r, stage) == \E i \in 1..Len(log[r]) : log[r][i] = <<stage, "threw">>

\* The process of slot r is in onExecute.
Running(r) == pc[r] \notin {"off", "idle", "done", "failed", "killed"}

\* A new invocation of "rush generate" (the flag --lazy is its input).
Start(r) ==
  /\ pc[r] \in {"idle", "done", "failed", "killed"}
  /\ runs < MaxRuns
  /\ runs' = runs + 1
  /\ \E lazy \in BOOLEAN : isLazy' = [isLazy EXCEPT ![r] = lazy]
  /\ commonPackageJson' = [commonPackageJson EXCEPT ![r] = <<>>]
  /\ sortedRushProjects' = [sortedRushProjects EXCEPT ![r] = <<>>]
  /\ idx' = [idx EXCEPT ![r] = 0]
  /\ attempts' = [attempts EXCEPT ![r] = 0]
  /\ log' = [log EXCEPT ![r] = <<>>]
  /\ pre' = [pre EXCEPT ![r] = Files]
  /\ prev' = [prev EXCEPT ![r] =
                IF pc[r] = "idle" THEN NoPrev
                ELSE [ran |-> TRUE, ok |-> pc[r] = "done",
                      wrote |-> Completed(r, PopulateStage),
                      killed |-> pc[r] = "killed",
                      commonPackageJsonFile |-> commonPackageJsonFile,
                      tempModulesFolder |-> tempModulesFolder]]
  /\ overlapped' =
       [q \in Runs |->
          IF q = r THEN \E o \in Runs \ {r} : Running(o)
          ELSE overlapped[q] \/ Running(q)]
  /\ Goto(r, OnExecuteOrder[1])
  /\ UNCHANGED <<config, files>>

\* lines 168-172: RushConfiguration.loadFromDefaultLocation(), Stopwatch.start()
LoadConfiguration(r) ==
  /\ pc[r] = "load"
  /\ \/ Goto(r, After("load")) /\ Logged(r, LoadStage, "ok")
     \/ Throw(r, LoadStage)
  /\ UNCHANGED <<config, files, locals, history>>

\* lines 174-177: saveCurrentDependencies() when a package review file is set
SaveCurrentDependencies(r) ==
  /\ pc[r] = "snapshot"
  /\ IF packageReviewFile
     THEN \/ Goto(r, After("snapshot")) /\ Logged(r, SnapshotStage, "ok")
          \/ Throw(r, SnapshotStage)
     ELSE Goto(r, After("snapshot")) /\ UNCHANGED log
  /\ UNCHANGED <<config, files, locals, history>>

\* lines 32-50
DeleteCommonNodeModules(r) ==
  /\ pc[r] = "clean"
  /\ IF isLazy[r]
     THEN LET matches == {e \in nodeModules.entries : GlobRushStar(e)}
          IN \/ /\ nodeModules' = [nodeModules EXCEPT !.entries = @ \ matches]
                /\ Goto(r, After("clean")) /\ Logged(r, CleanStage, "ok")
             \/ \* a recycleDirectory of the loop throws: the earlier ones are done
                /\ \E done \in SUBSET matches :
                     /\ done # matches
                     /\ nodeModules' = [nodeModules EXCEPT !.entries = @ \ done]
                /\ Throw(r, CleanStage)
     ELSE IF nodeModules.exists
          THEN \/ /\ nodeModules' = NoDir
                  /\ Goto(r, After("clean")) /\ Logged(r, CleanStage, "ok")
               \/ /\ UNCHANGED nodeModules
                  /\ Throw(r, CleanStage)
          ELSE /\ UNCHANGED nodeModules
               /\ Goto(r, After("clean")) /\ Logged(r, CleanStage, "ok")
  /\ UNCHANGED <<config, shrinkwrapFile, tempModulesFolder, commonPackageJsonFile,
                 locals, history>>

\* lines 59-66
DeleteShrinkwrapFileSkipped(r) ==
  /\ pc[r] = "dellock"
  /\ Goto(r, After("dellock")) /\ Logged(r, DeleteLockStage, "ok")
  /\ UNCHANGED <<config, files, locals, history>>

DeleteShrinkwrapFile(r) ==
  /\ pc[r] = "dellock"
  /\ IF shrinkwrapFile
     THEN \/ /\ shrinkwrapFile' = FALSE
             /\ Goto(r, After("dellock")) /\ Logged(r, DeleteLockStage, "ok")
          \/ /\ UNCHANGED shrinkwrapFile
             /\ Throw(r, DeleteLockStage)
     ELSE /\ UNCHANGED shrinkwrapFile
          /\ Goto(r, After("dellock")) /\ Logged(r, DeleteLockStage, "ok")
  /\ UNCHANGED <<config, nodeModules, tempModulesFolder, commonPackageJsonFile,
                 locals, history>>

\* lines 52-57
DeleteCommonTempModulesSkipped(r) ==
  /\ pc[r] = "deltemp"
  /\ Goto(r, After("deltemp")) /\ Logged(r, DeleteTempStage, "ok")
  /\ UNCHANGED <<config, files, locals, history>>

DeleteCommonTempModules(r) ==
  /\ pc[r] = "deltemp"
  /\ IF tempModulesFolder.exists
     THEN \/ /\ tempModulesFolder' = NoTempModules
             /\ Goto(r, After("deltemp")) /\ Logged(r, DeleteTempStage, "ok")
          \/ /\ UNCHANGED tempModulesFolder
             /\ Throw(r, DeleteTempStage)
     ELSE /\ UNCHANGED tempModulesFolder
          /\ Goto(r, After("deltemp")) /\ Logged(r, DeleteTempStage, "ok")
  /\ UNCHANGED <<config, nodeModules, shrinkwrapFile, commonPackageJsonFile,
                 locals, history>>

\* line 70: Utilities.createFolderWithRetry(tempModulesFolder); a failed
\* attempt is retried, and the last one allowed throws.
CreateFolderWithRetry(r) ==
  /\ pc[r] = "mkroot"
  /\ \/ /\ tempModulesFolder' =
             IF tempModulesFolder.exists THEN tempModulesFolder
             ELSE [exists |-> TRUE, dirs |-> EmptyFn]
        /\ Goto(r, "prepare")
        /\ UNCHANGED <<attempts, log>>
     \/ /\ ~tempModulesFolder.exists
        /\ attempts' = [attempts EXCEPT ![r] = @ + 1]
        /\ UNCHANGED tempModulesFolder
        /\ IF attempts[r] + 1 >= MaxAttempts
           THEN Throw(r, PopulateStage)
           ELSE UNCHANGED <<pc, log>>
  /\ UNCHANGED <<config, nodeModules, shrinkwrapFile, commonPackageJsonFile,
                 isLazy, commonPackageJson, sortedRushProjects, idx, history>>

\* lines 80-83: pinnedVersions.forEach((version, dependency) => ...)
RECURSIVE AddPinnedVersions(_, _)
AddPinnedVersions(deps, pinned) ==
  IF pinned = <<>> THEN deps
  ELSE AddPinnedVersions(ObjSet(deps, Head(pinned)[1], Head(pinned)[2]), Tail(pinned))

\* lines 72-94: the manifest in memory with the pinned versions, the sorted
\* copy of the projects, and the temp modules (whose generator may throw).
PrepareCommonPackageJsonAnyOrder(r) ==
  /\ pc[r] = "prepare"
  /\ commonPackageJson' =
       [commonPackageJson EXCEPT ![r] = AddPinnedVersions(<<>>, pinnedVersions)]
  /\ \E order \in Permutations(1..Len(projects)) :
       sortedRushProjects' =
         [sortedRushProjects EXCEPT ![r] = [i \in 1..Len(projects) |-> projects[order[i]]]]
  /\ idx' = [idx EXCEPT ![r] = 1]
  /\ Goto(r, IF projects = <<>> THEN "writecommon" ELSE "mkdir")
  /\ UNCHANGED <<config, files, isLazy, attempts, log, history>>

PrepareCommonPackageJsonFromDisk(r) ==
  /\ pc[r] = "prepare"
  /\ commonPackageJson' =
       [commonPackageJson EXCEPT ![r] =
          AddPinnedVersions(commonPackageJsonFile.dependencies, pinnedVersions)]
  /\ sortedRushProjects' =
       [sortedRushProjects EXCEPT ![r] = SortedRushProjects(projects)]
  /\ idx' = [idx EXCEPT ![r] = 1]
  /\ Goto(r, IF projects = <<>> THEN "writecommon" ELSE "mkdir")
  /\ UNCHANGED <<config, files, isLazy, attempts, log, history>>

PrepareCommonPackageJsonWritesFirst(r) ==
  /\ pc[r] = "prepare"
  /\ commonPackageJson' =
       [commonPackageJson EXCEPT ![r] = AddPinnedVersions(<<>>, pinnedVersions)]
  /\ commonPackageJsonFile' =
       PackageJsonFile(AddPinnedVersions(<<>>, pinnedVersions))
  /\ sortedRushProjects' =
       [sortedRushProjects EXCEPT ![r] = SortedRushProjects(projects)]
  /\ idx' = [idx EXCEPT ![r] = 1]
  /\ Goto(r, IF projects = <<>> THEN "writecommon" ELSE "mkdir")
  /\ UNCHANGED <<config, nodeModules, shrinkwrapFile, tempModulesFolder,
                 isLazy, attempts, log, history>>

PrepareCommonPackageJson(r) ==
  /\ pc[r] = "prepare"
  /\ \/ /\ commonPackageJson' =
             [commonPackageJson EXCEPT ![r] = AddPinnedVersions(<<>>, pinnedVersions)]
        /\ sortedRushProjects' =
             [sortedRushProjects EXCEPT ![r] = SortedRushProjects(projects)]
        /\ idx' = [idx EXCEPT ![r] = 1]
        /\ Goto(r, IF projects = <<>> THEN "writecommon" ELSE "mkdir")
        /\ UNCHANGED log
     \/ /\ Throw(r, PopulateStage)
        /\ UNCHANGED <<commonPackageJson, sortedRushProjects, idx>>
  /\ UNCHANGED <<config, files, isLazy, attempts, history>>

\* lines 97-104: fsx.mkdirSync(tempProjectFolder), which throws when the
\* folder exists or its parent does not, then the 'file:' dependency.
MkdirTempProjectTolerant(r) ==
  /\ pc[r] = "mkdir"
  /\ LET tempProjectName == sortedRushProjects[r][idx[r]].tempProjectName
     IN /\ tempModulesFolder.exists
        /\ tempModulesFolder' =
             [tempModulesFolder EXCEPT !.dirs =
                [n \in DOMAIN @ \cup {tempProjectName} |->
                   IF n \in DOMAIN @ THEN @[n] ELSE {}]]
        /\ commonPackageJson' =
             [commonPackageJson EXCEPT ![r] =
                ObjSet(@, tempProjectName, FileRef(tempProjectName))]
        /\ Goto(r, "save")
  /\ UNCHANGED <<config, nodeModules, shrinkwrapFile, commonPackageJsonFile,
                 isLazy, sortedRushProjects, idx, attempts, log, history>>

MkdirTempProject(r) ==
  /\ pc[r] = "mkdir"
  /\ LET tempProjectName == sortedRushProjects[r][idx[r]].tempProjectName
     IN \/ /\ tempModulesFolder.exists
           /\ tempProjectName \notin DOMAIN tempModulesFolder.dirs
           /\ tempModulesFolder' =
                [tempModulesFolder EXCEPT !.dirs =
                   [n \in DOMAIN @ \cup {tempProjectName} |->
                      IF n = tempProjectName THEN {} ELSE @[n]]]
           /\ commonPackageJson' =
                [commonPackageJson EXCEPT ![r] =
                   ObjSet(@, tempProjectName, FileRef(tempProjectName))]
           /\ Goto(r, "save")
           /\ UNCHANGED log
        \/ /\ Throw(r, PopulateStage)
           /\ UNCHANGED <<tempModulesFolder, commonPackageJson>>
  /\ UNCHANGED <<config, nodeModules, shrinkwrapFile, commonPackageJsonFile,
                 isLazy, sortedRushProjects, idx, attempts, history>>

\* lines 106-108: JsonFile.saveJsonFile(tempModules.get(packageName), ...)
SaveTempPackageJson(r) ==
  /\ pc[r] = "save"
  /\ LET rushProject == sortedRushProjects[r][idx[r]]
         tempProjectName == rushProject.tempProjectName
     IN \/ /\ tempModulesFolder.exists
           /\ tempProjectName \in DOMAIN tempModulesFolder.dirs
           /\ tempModulesFolder' =
                [tempModulesFolder EXCEPT !.dirs[tempProjectName] =
                   {Get(TempModules, rushProject.packageName)}]
           /\ idx' = [idx EXCEPT ![r] = @ + 1]
           /\ Goto(r, IF idx[r] < Len(sortedRushProjects[r]) THEN "mkdir"
                      ELSE "writecommon")
           /\ UNCHANGED log
        \/ /\ Throw(r, PopulateStage)
           /\ UNCHANGED <<tempModulesFolder, idx>>
  /\ UNCHANGED <<config, nodeModules, shrinkwrapFile, commonPackageJsonFile,
                 isLazy, commonPackageJson, sortedRushProjects, attempts, history>>

\* lines 111-113: JsonFile.saveJsonFile(commonPackageJson, common/package.json)
WriteCommonPackageJson(r) ==
  /\ pc[r] = "writecommon"
  /\ \/ /\ commonPackageJsonFile' = PackageJsonFile(commonPackageJson[r])
        /\ Goto(r, After("mkroot")) /\ Logged(r, PopulateStage, "ok")
     \/ /\ UNCHANGED commonPackageJsonFile
        /\ Throw(r, PopulateStage)
  /\ UNCHANGED <<config, nodeModules, shrinkwrapFile, tempModulesFolder,
                 locals, history>>

\* lines 193-194: InstallAction.ensureLocalNpmTool(rushConfiguration, false)
EnsureLocalNpmTool(r) ==
  /\ pc[r] = "ensure"
  /\ \/ Goto(r, After("ensure")) /\ Logged(r, EnsureStage, "ok")
     \/ Throw(r, EnsureStage)
  /\ UNCHANGED <<config, files, locals, history>>

\* lines 116-131: Utilities.executeCommand(npm, ['install', ...]) throws on a
\* non-zero exit.
RunNpmInstall(r) ==
  /\ pc[r] = "install"
  /\ \/ /\ CanInstall
        /\ nodeModules' = Dir(nodeModules.entries \cup InstalledNames)
        /\ Goto(r, After("install")) /\ Logged(r, InstallStage, "ok")
     \/ /\ UNCHANGED nodeModules
        /\ Throw(r, InstallStage)
  /\ UNCHANGED <<config, shrinkwrapFile, tempModulesFolder, commonPackageJsonFile,
                 locals, history>>

\* lines 133-144
RunNpmShrinkWrapAlways(r) ==
  /\ pc[r] = "shrinkwrap"
  /\ shrinkwrapFile' = TRUE
  /\ Goto(r, After("shrinkwrap")) /\ Logged(r, FreezeStage, "ok")
  /\ UNCHANGED <<config, nodeModules, tempModulesFolder, commonPackageJsonFile,
                 locals, history>>

RunNpmShrinkWrap(r) ==
  /\ pc[r] = "shrinkwrap"
  /\ IF isLazy[r]
     THEN /\ Goto(r, After("shrinkwrap"))
          /\ UNCHANGED <<shrinkwrapFile, log>>
     ELSE \/ /\ shrinkwrapFile' = TRUE
             /\ Goto(r, After("shrinkwrap")) /\ Logged(r, FreezeStage, "ok")
          \/ /\ UNCHANGED shrinkwrapFile
             /\ Throw(r, FreezeStage)
  /\ UNCHANGED <<config, nodeModules, tempModulesFolder, commonPackageJsonFile,
                 locals, history>>

\* lines 200-202: stopwatch.stop() and the summary lines
Finish(r) ==
  /\ pc[r] = "finish"
  /\ Goto(r, After("finish")) /\ Logged(r, SummaryStage, "ok")
  /\ UNCHANGED <<config, files, locals, history>>

\* lines 167-203
onExecute(r) ==
  \/ LoadConfiguration(r)
  \/ SaveCurrentDependencies(r)
  \/ DeleteCommonNodeModules(r)
  \/ DeleteShrinkwrapFile(r)
  \/ DeleteCommonTempModules(r)
  \/ CreateFolderWithRetry(r)
  \/ PrepareCommonPackageJson(r)
  \/ MkdirTempProject(r)
  \/ SaveTempPackageJson(r)
  \/ WriteCommonPackageJson(r)
  \/ EnsureLocalNpmTool(r)
  \/ RunNpmInstall(r)
  \/ RunNpmShrinkWrap(r)
  \/ Finish(r)

Next == \E r \in Runs : Start(r) \/ onExecute(r)

Spec == Init /\ [][Next]_vars

\* Two processes on the same common folder: nothing in onExecute keeps the
\* second from starting while the first is running.
InitOverlap ==
  /\ pinnedVersions = <<>>
  /\ projects \in {l \in ProjectLists :
                     /\ l # <<>>
                     /\ \A i \in DOMAIN l : l[i].packageName \in {<<"a">>, <<"b">>}}
  /\ packageReviewFile = FALSE
  /\ InitFiles
  /\ InitLocals(Runs)

\* One process is one invocation of onExecute.
StartOnce(r) == pc[r] = "idle" /\ Start(r)

NextOverlap == \E r \in Runs : StartOnce(r) \/ onExecute(r)

SpecOverlap == InitOverlap /\ [][NextOverlap]_vars

\* The process is terminated from outside between two steps of onExecute
\* (there is no handler: the files stay as they are).
Kill(r) ==
  /\ Running(r)
  /\ Goto(r, "killed")
  /\ UNCHANGED <<config, files, locals, log, history>>

NextKill == Next \/ \E r \in Runs : Kill(r)

\* Runs that may be aborted at any point, one at a time.
SpecKill == Init /\ [][NextKill]_vars

(* ------------------------------ the claims ----------------------------- *)
Active(r) == pc[r] \notin {"off", "idle"}
StageNames(l) == [i \in 1..Len(l) |-> l[i][1]]
IsPrefix(a, b) == Len(a) <= Len(b) /\ SubSeq(b, 1, Len(a)) = a
Count(l, stage) == Cardinality({i \in 1..Len(l) : l[i][1] = stage})
Position(l, stage) == CHOOSE i \in 1..Len(l) : l[i][1] = stage

\* The stages a run goes through, by its configuration and mode.
ExpectedStages(r) ==
  <<"LoadConfiguration">>
  \o (IF packageReviewFile THEN <<"Snapshot">> ELSE <<>>)
  \o <<"CleanNodeModules", "DeleteLockArtifact", "DeleteTempModulesRoot",
       "RecreateAndPopulate", "EnsureInstaller", "Install">>
  \o (IF isLazy[r] THEN <<>> ELSE <<"Freeze">>)
  \o <<"Summary">>

\* C1: in every run the stages are called in the fixed order (configuration,
\* snapshot when package review is configured, CleanNodeModules,
\* DeleteLockArtifact, DeleteTempModulesRoot, RecreateAndPopulate, the
\* installer check, install, freeze), none repeated or reordered, each only
\* after the one before it completed; and as long as CleanNodeModules has not
\* been called (so when the snapshot is taken) the files are as the run found
\* them.
StagesInOrder ==
  \A r \in Runs :
    Active(r) =>
      /\ IsPrefix(StageNames(log[r]), ExpectedStages(r))
      /\ \A i \in 1..Len(log[r]) : i < Len(log[r]) => log[r][i][2] = "ok"
      /\ ~Called(r, "CleanNodeModules") => Files = pre[r]

\* C1 witness: a full-mode run with package review that called every stage.
StagesInOrderWitness ==
  \E r \in Runs :
    /\ pc[r] = "done" /\ packageReviewFile /\ ~isLazy[r]
    /\ Len(log[r]) = 10
    /\ pre[r].tempModulesFolder.exists

\* C2: a stage that fails is the last thing the run does: nothing is called
\* after it, the summary is emitted only by a run all of whose stages
\* completed, and freeze is never called after a failed install.
FailureHalts ==
  \A r \in Runs :
    Active(r) =>
      /\ \A i \in 1..Len(log[r]) :
           log[r][i][2] = "threw" => i = Len(log[r]) /\ pc[r] = "failed"
      /\ pc[r] = "failed" => Len(log[r]) > 0 /\ log[r][Len(log[r])][2] = "threw"
      /\ Called(r, "Summary") =>
           /\ StageNames(log[r]) = ExpectedStages(r)
           /\ \A i \in 1..Len(log[r]) : log[r][i][2] = "ok"
      /\ Threw(r, "Install") => ~Called(r, "Freeze")
      /\ pc[r] = "done" <=> Called(r, "Summary")

\* C2 witness: install exited non-zero in a full-mode run, which stopped there.
FailureHaltsWitness ==
  \E r \in Runs :
    /\ pc[r] = "failed" /\ ~isLazy[r]
    /\ Threw(r, "Install")
    /\ Completed(r, "RecreateAndPopulate")

\* C3: when a run has succeeded, npm-shrinkwrap.json exists exactly if the run
\* was in full mode; a full-mode run called freeze once, after install, and a
\* lazy run never called it.
LockIffFullMode ==
  \A r \in Runs :
    pc[r] = "done" =>
      /\ shrinkwrapFile <=> ~isLazy[r]
      /\ isLazy[r] => ~Called(r, "Freeze")
      /\ ~isLazy[r] =>
           /\ Count(log[r], "Freeze") = 1
           /\ Position(log[r], "Install") < Position(log[r], "Freeze")

\* C3 witness: a lazy run that found a lock file has succeeded.
LockIffFullModeWitness ==
  \E r \in Runs :
    pc[r] = "done" /\ isLazy[r] /\ pre[r].shrinkwrapFile /\ ~shrinkwrapFile

\* C4: a CleanNodeModules that completes in lazy mode removes exactly the
\* entries of common/node_modules whose name starts with "rush-" and leaves
\* the folder and its other entries; in full mode it removes the folder with
\* all its entries when it exists and changes nothing when it does not.  It
\* touches no other file.
HasTempPrefix(name) ==
  Len(name) >= 5 /\ <<name[1], name[2], name[3], name[4], name[5]>> = <<"r", "u", "s", "h", "-">>

CleanScope ==
  [][\A r \in Runs :
       (pc[r] = "clean" /\ pc'[r] \notin {"clean", "failed"}) =>
         /\ IF isLazy[r]
            THEN /\ nodeModules'.exists = nodeModules.exists
                 /\ \A e \in nodeModules.entries \cup nodeModules'.entries :
                      e \in nodeModules'.entries <=>
                        (e \in nodeModules.entries /\ ~HasTempPrefix(e))
            ELSE /\ ~nodeModules'.exists
                 /\ nodeModules'.entries = {}
         /\ UNCHANGED <<shrinkwrapFile, tempModulesFolder, commonPackageJsonFile>>]_vars

\* C4 witness: a lazy clean has removed rush-a and kept lodash and rush.
CleanScopeWitness ==
  \E r \in Runs :
    /\ pc[r] = "dellock" /\ isLazy[r]
    /\ {RushA, Lodash, Rush} \subseteq pre[r].nodeModules.entries
    /\ nodeModules.exists
    /\ RushA \notin nodeModules.entries
    /\ {Lodash, Rush} \subseteq nodeModules.entries

Aliases == {projects[i].tempProjectName : i \in 1..Len(projects)}
PinnedNames == {pinnedVersions[i][1] : i \in 1..Len(pinnedVersions)}
LocalFile(alias) == <<"file:./temp_modules/">> \o alias

\* The names of S in ascending order.
Ascending(S) ==
  CHOOSE seq \in [1..Cardinality(S) -> S] :
    \A i, j \in 1..Cardinality(S) : i < j => localeCompare(seq[i], seq[j]) < 0

\* The root manifest (common/package.json) this run has written.
WroteRoot(r) == Active(r) /\ Completed(r, "RecreateAndPopulate")
RootDependencies == commonPackageJsonFile.dependencies

\* C5: in the root manifest a run has written, every pinned name has exactly
\* its pinned version, whatever the projects and their temp aliases are.
PinnedVersionsWin ==
  \A r \in Runs :
    WroteRoot(r) =>
      \A i \in 1..Len(pinnedVersions) :
        /\ HasKey(RootDependencies, pinnedVersions[i][1])
        /\ Get(RootDependencies, pinnedVersions[i][1]) = pinnedVersions[i][2]

\* C6: when a project's temp alias is a pinned name, the run aborts: it does
\* not succeed, and it writes no root manifest in which the temp-module
\* reference has taken the place of the pinned version.
CollisionIsFatal ==
  \A r \in Runs :
    (Active(r) /\ Aliases \cap PinnedNames # {}) =>
      /\ pc[r] # "done"
      /\ ~(/\ WroteRoot(r)
           /\ \E k \in Aliases \cap PinnedNames :
                Get(RootDependencies, k) = LocalFile(k))

\* C7: the keys of the root manifest a run has written are exactly the pinned
\* names and the temp aliases of the projects, and every temp alias A has the
\* value "file:./temp_modules/A".
RootKeysAndReferences ==
  \A r \in Runs :
    WroteRoot(r) =>
      /\ commonPackageJsonFile.exists
      /\ KeySet(RootDependencies) = PinnedNames \cup Aliases
      /\ Distinct(Keys(RootDependencies))
      /\ \A a \in Aliases : Get(RootDependencies, a) = LocalFile(a)

\* C7 witness: a run has written a root manifest with a pinned version and
\* the references of two projects.
RootKeysAndReferencesWitness ==
  \E r \in Runs :
    /\ WroteRoot(r) /\ pc[r] = "done"
    /\ Lodash \in PinnedNames
    /\ Aliases = {RushA, RushB}
    /\ Len(RootDependencies) >= 3

\* C8: the root manifest a run has written lists every pinned entry first, in
\* configuration order, and then the temp-module references in ascending
\* order of temp alias: a sequence that depends on the set of aliases only,
\* not on the order of the projects.
PinnedFirstThenSortedReferences ==
  \A r \in Runs :
    WroteRoot(r) =>
      RootDependencies =
        pinnedVersions \o
        [i \in 1..Cardinality(Aliases) |->
           <<Ascending(Aliases)[i], LocalFile(Ascending(Aliases)[i])>>]

\* What the root manifest holds as a function of the configuration alone: the
\* pinned names in configuration order (one that is a temp alias holding the
\* reference), then the other temp aliases in ascending order.
RootOfConfiguration ==
  [i \in 1..Len(pinnedVersions) |->
     IF pinnedVersions[i][1] \in Aliases
     THEN <<pinnedVersions[i][1], LocalFile(pinnedVersions[i][1])>>
     ELSE pinnedVersions[i]]
  \o
  [i \in 1..Cardinality(Aliases \ PinnedNames) |->
     <<Ascending(Aliases \ PinnedNames)[i],
       LocalFile(Ascending(Aliases \ PinnedNames)[i])>>]

\* C9: the root manifest a run writes is determined by the pinned versions
\* and the projects alone: it is the same whatever the files were before the
\* run, and the same as the one an earlier run over the same configuration
\* wrote.
RootManifestDeterministic ==
  \A r \in Runs :
    WroteRoot(r) =>
      /\ RootDependencies = RootOfConfiguration
      /\ prev[r].wrote => commonPackageJsonFile = prev[r].commonPackageJsonFile

\* C9 witness: a second construction over a common folder that held a stale
\* manifest before the first one.
RootManifestDeterministicWitness ==
  \E r \in Runs :
    /\ WroteRoot(r) /\ prev[r].wrote
    /\ Len(projects) = 2 /\ Len(pinnedVersions) >= 1
    /\ pre[r].commonPackageJsonFile.exists
    /\ nodeModules # pre[r].nodeModules

\* C10: when two runs in a row both succeed, the root manifest and the temp
\* module folders with their manifests are after the second run what they
\* were after the first.
RerunIdempotent ==
  \A r \in Runs :
    (pc[r] = "done" /\ prev[r].ok) =>
      /\ commonPackageJsonFile = prev[r].commonPackageJsonFile
      /\ tempModulesFolder = prev[r].tempModulesFolder

\* C10 witness: the second of two successful runs over two projects.
RerunIdempotentWitness ==
  \E r \in Runs :
    /\ pc[r] = "done" /\ prev[r].ok
    /\ Len(projects) = 2
    /\ DOMAIN tempModulesFolder.dirs = {RushA, RushB}
    /\ \A d \in DOMAIN tempModulesFolder.dirs : tempModulesFolder.dirs[d] # {}

\* The temp modules as a function of the configuration alone: one folder per
\* project, named by its temp alias, holding the project's manifest under
\* that name.
ManifestOf(alias) ==
  LET p == CHOOSE q \in {projects[i] : i \in 1..Len(projects)} : q.tempProjectName = alias
  IN [name |-> alias, dependencies |-> p.packageJson.dependencies]

TempOfConfiguration ==
  [exists |-> TRUE, dirs |-> [a \in Aliases |-> {ManifestOf(a)}]]

\* C11: a full-mode run that succeeds ends with the temp module folders, the
\* root manifest and the lock file that the configuration alone determines:
\* the same after a run that threw or was killed at any point, leaving its
\* files half written, as from a clean common folder.
SelfHealing ==
  \A r \in Runs :
    (pc[r] = "done" /\ ~isLazy[r]) =>
      /\ tempModulesFolder = TempOfConfiguration
      /\ commonPackageJsonFile = [exists |-> TRUE, dependencies |-> RootOfConfiguration]
      /\ shrinkwrapFile

\* C11 witness: a full-mode run succeeded after a run that was killed between
\* creating a project folder and writing its manifest.
SelfHealingWitness ==
  \E r \in Runs :
    /\ pc[r] = "done" /\ ~isLazy[r]
    /\ prev[r].killed
    /\ pre[r].tempModulesFolder.exists
    /\ \E d \in DOMAIN pre[r].tempModulesFolder.dirs : pre[r].tempModulesFolder.dirs[d] = {}
    /\ Len(projects) = 2

\* C12: when every attempt of createFolderWithRetry has failed, the run has
\* failed in RecreateAndPopulate without entering its loop: common/temp_modules
\* does not exist (no project folder, no temp manifest), common/package.json
\* is as the run found it, and neither install nor freeze is called.
RetryExhaustionStops ==
  \A r \in Runs :
    (Active(r) /\ attempts[r] >= MaxAttempts) =>
      /\ pc[r] = "failed"
      /\ Threw(r, "RecreateAndPopulate")
      /\ ~tempModulesFolder.exists /\ DOMAIN tempModulesFolder.dirs = {}
      /\ idx[r] = 0 /\ commonPackageJson[r] = <<>>
      /\ commonPackageJsonFile = pre[r].commonPackageJsonFile
      /\ ~Called(r, "EnsureInstaller") /\ ~Called(r, "Install") /\ ~Called(r, "Freeze")

\* C12 witness: the retries are exhausted in a run over two projects that
\* found a common/temp_modules folder and deleted it.
RetryExhaustionStopsWitness ==
  \E r \in Runs :
    /\ attempts[r] >= MaxAttempts /\ pc[r] = "failed"
    /\ Len(projects) = 2
    /\ pre[r].tempModulesFolder.exists

AliasList == [i \in 1..Len(projects) |-> projects[i].tempProjectName]

\* C13: when two projects have the same temp alias, the run fails in
\* RecreateAndPopulate: it does not write the root manifest, does not call
\* install and does not succeed.
DuplicateAliasFails ==
  \A r \in Runs :
    (Active(r) /\ ~Distinct(AliasList)) =>
      /\ ~Completed(r, "RecreateAndPopulate")
      /\ commonPackageJsonFile = pre[r].commonPackageJsonFile
      /\ ~Called(r, "Install")
      /\ pc[r] # "done"

\* C13 witness: the folder of the second project with the alias rush-a
\* could not be created, after the first one's manifest was written.
DuplicateAliasFailsWitness ==
  \E r \in Runs :
    /\ ~Distinct(AliasList)
    /\ pc[r] = "failed" /\ Threw(r, "RecreateAndPopulate")
    /\ idx[r] = 2
    /\ tempModulesFolder.exists
    /\ RushA \in DOMAIN tempModulesFolder.dirs
    /\ tempModulesFolder.dirs[RushA] # {}

\* C14: after a run that succeeded, common/temp_modules holds exactly one
\* folder for each project, named by the project's temp alias and holding the
\* project's temp manifest, and no other folder, whatever it held before.
OneFolderPerProject ==
  \A r \in Runs :
    pc[r] = "done" =>
      /\ tempModulesFolder.exists
      /\ DOMAIN tempModulesFolder.dirs = Aliases
      /\ Cardinality(DOMAIN tempModulesFolder.dirs) = Len(projects)
      /\ \A i \in 1..Len(projects) :
           tempModulesFolder.dirs[projects[i].tempProjectName] =
             {[name |-> projects[i].tempProjectName,
               dependencies |-> projects[i].packageJson.dependencies]}

\* C14 witness: a run over two projects succeeded in a common folder whose
\* temp_modules held the folder rush-c of a project no longer configured.
OneFolderPerProjectWitness ==
  \E r \in Runs :
    /\ pc[r] = "done"
    /\ Len(projects) = 2
    /\ RushC \in DOMAIN pre[r].tempModulesFolder.dirs
    /\ RushC \notin DOMAIN tempModulesFolder.dirs

\* C15: a saveCurrentDependencies that fails does not end the run: the run
\* is not aborted by it and goes on to CleanNodeModules.
SnapshotFailureNotFatal ==
  \A r \in Runs :
    (Active(r) /\ Threw(r, "Snapshot")) => pc[r] # "failed"

\* C15 as amended: a saveCurrentDependencies that fails ends the run like any
\* other exception: the run has failed before CleanNodeModules is called, and
\* the files are as the run found them.
SnapshotFailureFatal ==
  \A r \in Runs :
    (Active(r) /\ Threw(r, "Snapshot")) =>
      /\ pc[r] = "failed"
      /\ ~Called(r, "CleanNodeModules")
      /\ Files = pre[r]

\* C15 witness: the snapshot failed in a run over a populated common folder.
SnapshotFailureFatalWitness ==
  \E r \in Runs :
    /\ Threw(r, "Snapshot") /\ packageReviewFile
    /\ pre[r].nodeModules.exists /\ nodeModules.exists
    /\ shrinkwrapFile

\* C16: from the completion of DeleteLockArtifact until freeze is called
\* there is no npm-shrinkwrap.json in the common folder, in both modes; so
\* install never runs with a lock file from before the run.
NoStaleLock ==
  \A r \in Runs :
    (Active(r) /\ Completed(r, "DeleteLockArtifact") /\ ~Called(r, "Freeze")) =>
      ~shrinkwrapFile

\* C16 witness: install has been called in a run that found a lock file.
NoStaleLockWitness ==
  \E r \in Runs :
    /\ pre[r].shrinkwrapFile
    /\ Called(r, "Install") /\ ~Called(r, "Freeze")
    /\ ~shrinkwrapFile

\* C17: the root manifest is written last in RecreateAndPopulate: once a run
\* has written it, every 'file:./temp_modules/' reference in it names an
\* existing temp project folder that holds a manifest, for every project; and
\* as long as RecreateAndPopulate has not completed (so also when a project's
\* folder or manifest could not be written) common/package.json is as the
\* run found it.
RootManifestLast ==
  \A r \in Runs :
    Active(r) =>
      /\ WroteRoot(r) =>
           /\ \A i \in 1..Len(RootDependencies) :
                Head(RootDependencies[i][2]) = "file:./temp_modules/" =>
                  /\ tempModulesFolder.exists
                  /\ Tail(RootDependencies[i][2]) \in DOMAIN tempModulesFolder.dirs
                  /\ tempModulesFolder.dirs[Tail(RootDependencies[i][2])] # {}
           /\ \A a \in Aliases :
                a \in DOMAIN tempModulesFolder.dirs /\ tempModulesFolder.dirs[a] # {}
      /\ ~Completed(r, "RecreateAndPopulate") =>
           commonPackageJsonFile = pre[r].commonPackageJsonFile

\* C17 witness: writing the second project's manifest failed in a run that
\* found a root manifest, which is still the one on disk.
RootManifestLastWitness ==
  \E r \in Runs :
    /\ pc[r] = "failed" /\ Threw(r, "RecreateAndPopulate")
    /\ idx[r] = 2 /\ Len(projects) = 2
    /\ pre[r].commonPackageJsonFile.exists
    /\ tempModulesFolder.exists
    /\ \E d \in DOMAIN tempModulesFolder.dirs : tempModulesFolder.dirs[d] = {}

\* C18: when the installer check fails, install and freeze are not called,
\* and the run has by then deleted the lock file, cleaned common/node_modules
\* by its mode, and rewritten the temp modules and the root manifest; these
\* effects stay.
EnsureFailsAfterTeardown ==
  \A r \in Runs :
    (Active(r) /\ Threw(r, "EnsureInstaller")) =>
      /\ pc[r] = "failed"
      /\ ~Called(r, "Install") /\ ~Called(r, "Freeze")
      /\ ~shrinkwrapFile
      /\ IF isLazy[r]
         THEN /\ nodeModules.exists = pre[r].nodeModules.exists
              /\ nodeModules.entries =
                   {e \in pre[r].nodeModules.entries : ~HasTempPrefix(e)}
         ELSE ~nodeModules.exists
      /\ tempModulesFolder = TempOfConfiguration
      /\ commonPackageJsonFile = [exists |-> TRUE, dependencies |-> RootOfConfiguration]

\* C18 witness: the installer check failed in a run that found a lock file,
\* installed packages and stale temp modules.
EnsureFailsAfterTeardownWitness ==
  \E r \in Runs :
    /\ Threw(r, "EnsureInstaller")
    /\ pre[r].shrinkwrapFile
    /\ pre[r].nodeModules.exists
    /\ RushC \in DOMAIN pre[r].tempModulesFolder.dirs
    /\ Len(projects) >= 1

\* Every project's temp module is in place: common/temp_modules exists and
\* holds a folder with a manifest for each temp alias.
TempModulesInPlace ==
  /\ tempModulesFolder.exists
  /\ \A a \in Aliases :
       a \in DOMAIN tempModulesFolder.dirs /\ tempModulesFolder.dirs[a] # {}

\* C19: the pipeline has no guard against overlapping runs.  A run during which no
\* other run was in progress finds every project's temp module in place when
\* it calls install; for runs that overlap this fails (the witness).
InstallFindsTempModules ==
  \A r \in Runs :
    (pc[r] = "install" /\ ~overlapped[r]) => TempModulesInPlace

\* C19 witness: two runs overlapped, and one is about to call install when
\* the other has deleted common/temp_modules or not yet written a manifest.
InstallFindsTempModulesWitness ==
  \E r \in Runs :
    /\ pc[r] = "install" /\ overlapped[r]
    /\ ~TempModulesInPlace
    /\ \E o \in Runs \ {r} : Running(o)

====
